---- MODULE Spec2Model ----
(***************************************************************************)
(* A model of world_population/data_analysis/get_data.py: the class        *)
(* WorldBankData (constructor, _create_url, get, transform_data, save) and *)
(* the `exception` decorator that wraps its methods.                       *)
(*                                                                         *)
(* Strings are sequences of tokens: a user-supplied string is a sequence   *)
(* of one-character tokens, a literal of an f-string is one token, and     *)
(* f-string interpolation is concatenation (\o).                           *)
(*                                                                         *)
(* transform_data is modelled for a pandas that has DataFrame.append       *)
(* (pandas < 2.0), the library the method is written against.              *)
(***************************************************************************)
EXTENDS Integers, Sequences, FiniteSets, TLC

VARIABLES
    phase,             \* "new": no object yet; "ready": constructed; "failed": __init__ raised
    indicator,         \* self.indicator
    country,           \* self.country
    file_name,         \* self.file_name
    url,               \* self.url
    data,              \* self.data
    data_downloaded,   \* self.data_downloaded
    data_transformed,  \* self.data_transformed
    ctor_args,         \* the file_name and over_write arguments __init__ was called with
    disk,              \* the file at self.file_name: does it exist, and what it holds
    server,            \* the World Bank endpoint behind self.url: its record count and record shape
    lastOp,            \* the method called last
    logged,            \* the error the last call wrote with logger.error ("" when none)
    raised,            \* the exception the last call raised to its caller ("" when none)
    requests           \* the (page, per_page) requests the last get() issued, in order

vars == <<phase, indicator, country, file_name, url, data, data_downloaded,
          data_transformed, ctor_args, disk, server, lastOp, logged, raised, requests>>

-----------------------------------------------------------------------------
(* Bounds *)

\* the largest record count the server reports
MaxTotal == 2500

-----------------------------------------------------------------------------
(* Strings *)

\* str.lower() on one character
LowerChar(c) ==
    CASE c = "A" -> "a" [] c = "L" -> "l" [] c = "S" -> "s" [] c = "O" -> "o"
      [] c = "U" -> "u" [] c = "R" -> "r" [] c = "C" -> "c" [] c = "E" -> "e"
      [] c = "J" -> "j" [] c = "N" -> "n" [] c = "D" -> "d" [] c = "X" -> "x"
      [] OTHER -> c

\* str.lower()
Lower(s) == [i \in 1..Len(s) |-> LowerChar(s[i])]

\* Python's `sub in s`
Contains(sub, s) ==
    \E i \in 0..(Len(s) - Len(sub)) : SubSeq(s, i + 1, i + Len(sub)) = sub

\* the characters of the literals the code compares against
StrAll == <<"a", "l", "l">>
StrSource == <<"s", "o", "u", "r", "c", "e">>
StrJson == <<"j", "s", "o", "n">>

\* WorldBankData.base_api_url
base_api_url == <<"http://api.worldbank.org/v2">>

-----------------------------------------------------------------------------
(* Arguments the constructor is called with *)

Indicators ==
    { StrAll, <<"A", "l", "L">>, StrSource, <<"S", "o", "u", "r", "c", "e">>,
      <<"x">>, <<"a", "l">> }

Countries == { StrAll, <<"u", "s">> }

\* file_name: None ([given |-> FALSE]) or a string
NoFileName == [given |-> FALSE, name |-> <<>>]
FileNameArgs ==
    { NoFileName }
    \cup { [given |-> TRUE, name |-> n] :
             n \in { <<>>, <<"d">>, <<"d", ".", "j", "s", "o", "n">>,
                     <<"D", ".", "J", "S", "O", "N">>, <<"j", "s", "n">> } }

-----------------------------------------------------------------------------
(* __init__ *)

\* define_file_name
define_file_name(ind, ctry) == ind \o <<"_">> \o ctry \o <<".json">>

\* the file name __init__ resolves: `not file_name` is true of None and of ""
ResolveFileName(arg, ind, ctry) ==
    IF (~arg.given) \/ arg.name = <<>>
    THEN define_file_name(ind, ctry)
    ELSE IF ~Contains(StrJson, Lower(arg.name))
         THEN arg.name \o <<".json">>
         ELSE arg.name

\* (mutant) the reserved keywords are compared without .lower()
create_url_case_sensitive(ind, ctry) ==
    IF ind = StrAll
    THEN base_api_url \o <<"/indicator">>
    ELSE IF ind = StrSource
         THEN base_api_url \o <<"/source">>
         ELSE base_api_url \o <<"/country/">> \o ctry \o <<"/indicator/">> \o ind

\* _create_url
create_url(ind, ctry) ==
    IF Lower(ind) = StrAll
    THEN base_api_url \o <<"/indicator">>
    ELSE IF Lower(ind) = StrSource
         THEN base_api_url \o <<"/source">>
         ELSE base_api_url \o <<"/country/">> \o ctry \o <<"/indicator/">> \o ind

\* self.data = None
NoneData == [tag |-> "None"]

\* (mutant) the over_write argument is ignored
InitRaisesIgnoringOverWrite(exists, over_write) == exists

\* __init__ raises FileExistsError
InitRaises(exists, over_write) == exists /\ ~over_write

\* WorldBankData(indicator, country, file_name=arg, over_write=over_write), with
\* os.path.exists(self.file_name) = exists
Construct(ind, ctry, arg, over_write, exists) ==
    /\ phase = "new"
    /\ indicator' = ind
    /\ country' = ctry
    /\ file_name' = ResolveFileName(arg, ind, ctry)
    /\ ctor_args' = [file_name |-> arg, over_write |-> over_write]
    /\ disk' = [exists |-> exists, content |-> [format |-> "old"]]
    /\ lastOp' = "__init__"
    /\ requests' = <<>>
    /\ IF InitRaises(exists, over_write)
       THEN /\ phase' = "failed"
            /\ logged' = "File already exists"
            /\ raised' = "FileExistsError"
            /\ UNCHANGED <<url, data, data_downloaded, data_transformed>>
       ELSE /\ phase' = "ready"
            /\ logged' = ""
            /\ raised' = ""
            /\ url' = create_url(ind, ctry)
            /\ data' = NoneData
            /\ data_downloaded' = FALSE
            /\ data_transformed' = FALSE
    /\ UNCHANGED server

-----------------------------------------------------------------------------
(* The endpoint: what requests.get(...).json() returns *)

\* per_page = 1000
per_page_size == 1000

\* a field of a record: a scalar, or a sub-mapping such as {"id": .., "value": ..}
Scalar(v) == [kind |-> "scalar", v |-> v]
Dict(d) == [kind |-> "dict", d |-> d]

\* the shapes of record the endpoint serves
Shapes == { "indicator", "nested", "flat", "ragged" }

\* record number i of the endpoint's result set
Record(shape, i) ==
    CASE shape = "indicator" ->
           [indicator |-> Dict([id |-> 0, value |-> 7]), date |-> Scalar(i), value |-> Scalar(2 * i)]
      [] shape = "nested" ->
           [value |-> Dict([A |-> i, B |-> 2 * i])]
      [] shape = "flat" ->
           [date |-> Scalar(i), value |-> Scalar(2 * i)]
      [] shape = "ragged" ->
           IF i = 1
           THEN [indicator |-> Dict([id |-> 0, value |-> 7]), date |-> Scalar(i)]
           ELSE IF i % 2 = 0
                THEN [indicator |-> Dict([id |-> i]), date |-> Dict([value |-> i])]
                ELSE [indicator |-> Dict([id |-> 0, value |-> 7])]

Min(a, b) == IF a < b THEN a ELSE b
Max(a, b) == IF a > b THEN a ELSE b

\* math.ceil(a / b) for a >= 0, b > 0
Ceil(a, b) == (a + b - 1) \div b

\* the response to get_data(page, per_page): [metadata, records]
get_data(srv, page, per_page) ==
    LET first == (page - 1) * per_page
        n     == Max(0, Min(per_page, srv.total - first))
    IN  << [page |-> page, pages |-> Ceil(srv.total, per_page),
            per_page |-> per_page, total |-> srv.total],
           [i \in 1..n |-> Record(srv.shape, first + i)] >>

-----------------------------------------------------------------------------
(* get *)

\* the request get_data(page, per_page) sends
Request(page, per_page) == [page |-> page, per_page |-> per_page]

\* (mutant) the page count is rounded down
n_pages_floor(total) == total \div per_page_size

\* n_pages = math.ceil(total / per_page)
n_pages_of(total) == Ceil(total, per_page_size)

\* (mutant) a later page's records are put in front of the accumulated ones
PageStepPrepend(st, srv, page, fail_at) ==
    LET sent == Append(st.requests, Request(page, per_page_size))
    IN  IF Len(sent) = fail_at
        THEN [st EXCEPT !.requests = sent, !.failed = TRUE]
        ELSE LET output == get_data(srv, page, per_page_size)
             IN  IF st.first_round
                 THEN [st EXCEPT !.requests = sent, !.data = output, !.first_round = FALSE]
                 ELSE [st EXCEPT !.requests = sent,
                                 !.data = <<st.data[1], output[2] \o st.data[2]>>]

\* one round of `for page in range(1, n_pages + 1)`: st is the loop's state,
\* fail_at the number of the request (counted from the probe) that raises
PageStep(st, srv, page, fail_at) ==
    LET sent == Append(st.requests, Request(page, per_page_size))
    IN  IF Len(sent) = fail_at
        THEN [st EXCEPT !.requests = sent, !.failed = TRUE]
        ELSE LET output == get_data(srv, page, per_page_size)
             IN  IF st.first_round
                 THEN [st EXCEPT !.requests = sent, !.data = output, !.first_round = FALSE]
                 ELSE [st EXCEPT !.requests = sent,
                                 !.data = <<st.data[1], st.data[2] \o output[2]>>]

RECURSIVE PageLoop(_, _, _, _, _)
PageLoop(st, srv, page, n_pages, fail_at) ==
    IF page > n_pages \/ st.failed
    THEN st
    ELSE PageLoop(PageStep(st, srv, page, fail_at), srv, page + 1, n_pages, fail_at)

\* the body of get(): the probe, the page count, the loop
GetRun(srv, fail_at) ==
    LET probe == <<Request(1, 1)>>
    IN  IF fail_at = 1
        THEN [data |-> <<>>, first_round |-> TRUE, requests |-> probe, failed |-> TRUE]
        ELSE LET total == get_data(srv, 1, 1)[1].total
             IN  PageLoop([data |-> <<>>, first_round |-> TRUE, requests |-> probe,
                           failed |-> FALSE],
                          srv, 1, n_pages_of(total), fail_at)

\* self.data = data, a list
ListData(l) == [tag |-> "list", items |-> l]

\* the kinds of failure of a request: requests.get raises, or r.json() raises
RequestErrors == { "ConnectionError", "JSONDecodeError" }

\* (mutant) self.data is assigned as the pages arrive, so a failed call keeps
\* the pages fetched before the failure
GetKeepsPartial(fail_at, err) ==
    /\ phase = "ready"
    /\ LET run == GetRun(server, fail_at)
       IN  /\ (fail_at # 0) => run.failed
           /\ (fail_at = 0) => err = "ConnectionError"
           /\ requests' = run.requests
           /\ lastOp' = "get"
           /\ raised' = ""
           /\ data' = ListData(run.data)
           /\ IF run.failed
              THEN /\ logged' = err
                   /\ UNCHANGED <<data_downloaded, data_transformed>>
              ELSE /\ logged' = ""
                   /\ data_downloaded' = TRUE
                   /\ UNCHANGED data_transformed
    /\ UNCHANGED <<phase, indicator, country, file_name, url, ctor_args, disk, server>>

\* get(), whose request number fail_at raises err (fail_at = 0: none does)
Get(fail_at, err) ==
    /\ phase = "ready"
    /\ LET run == GetRun(server, fail_at)
       IN  /\ (fail_at # 0) => run.failed
           /\ (fail_at = 0) => err = "ConnectionError"
           /\ requests' = run.requests
           /\ lastOp' = "get"
           /\ raised' = ""
           /\ IF run.failed
              THEN /\ logged' = err
                   /\ UNCHANGED <<data, data_downloaded, data_transformed>>
              ELSE /\ logged' = ""
                   /\ data' = ListData(run.data)
                   /\ data_downloaded' = TRUE
                   /\ UNCHANGED data_transformed
    /\ UNCHANGED <<phase, indicator, country, file_name, url, ctor_args, disk, server>>

-----------------------------------------------------------------------------
(* transform_data *)

NaN == [kind |-> "NaN"]

\* (mutant) the row of the frame is taken at 'id' instead of 'value'
RowOfId(item, headers) ==
    LET present == headers \cap DOMAIN item
        dicts   == { h \in present : item[h].kind = "dict" }
        index   == UNION { DOMAIN item[h].d : h \in dicts }
    IN  IF dicts = {} /\ present # {}
        THEN [error |-> "ValueError"]
        ELSE IF "id" \notin index
             THEN [error |-> "KeyError"]
             ELSE [error |-> "",
                   row |-> [h \in headers |->
                              IF h \notin present THEN NaN
                              ELSE IF item[h].kind = "scalar" THEN item[h]
                              ELSE IF "id" \in DOMAIN item[h].d
                                   THEN Scalar(item[h].d["id"])
                                   ELSE NaN]]

\* pd.DataFrame(item, columns=headers).loc['value', :]: the row, or the error raised
RowOf(item, headers) ==
    LET present == headers \cap DOMAIN item
        dicts   == { h \in present : item[h].kind = "dict" }
        index   == UNION { DOMAIN item[h].d : h \in dicts }
    IN  IF dicts = {} /\ present # {}
        THEN [error |-> "ValueError"]
        ELSE IF "value" \notin index
             THEN [error |-> "KeyError"]
             ELSE [error |-> "",
                   row |-> [h \in headers |->
                              IF h \notin present THEN NaN
                              ELSE IF item[h].kind = "scalar" THEN item[h]
                              ELSE IF "value" \in DOMAIN item[h].d
                                   THEN Scalar(item[h].d["value"])
                                   ELSE NaN]]

\* headers = self.data[1][0].keys()
HeadersOf(records) == DOMAIN records[1]

\* the loop of transform_data over self.data[1]: the table, or the first error
TransformRun(records) ==
    LET headers == HeadersOf(records)
        rows    == [i \in 1..Len(records) |-> RowOf(records[i], headers)]
        bad     == { i \in 1..Len(records) : rows[i].error # "" }
    IN  IF bad # {}
        THEN [error |-> rows[CHOOSE i \in bad : \A j \in bad : i <= j].error]
        ELSE [error |-> "",
              table |-> [tag |-> "DataFrame", columns |-> headers,
                         rows |-> [i \in 1..Len(records) |-> rows[i].row]]]

\* the error transform_data raises before its loop, "" when it reaches the loop
TransformPrecheck(d) ==
    CASE d.tag = "None" -> "TypeError"
      [] d.tag = "DataFrame" -> "KeyError"
      [] d.tag = "list" /\ Len(d.items) < 2 -> "IndexError"
      [] d.tag = "list" /\ Len(d.items[2]) = 0 -> "IndexError"
      [] OTHER -> ""

\* (mutant) the transformed flag is set before the table is built
TransformFlagFirst ==
    /\ phase = "ready"
    /\ lastOp' = "transform_data"
    /\ raised' = ""
    /\ data_transformed' = TRUE
    /\ LET pre == TransformPrecheck(data)
           run == TransformRun(data.items[2])
       IN  IF pre # ""
           THEN /\ logged' = pre
                /\ UNCHANGED data
           ELSE IF run.error # ""
                THEN /\ logged' = run.error
                     /\ UNCHANGED data
                ELSE /\ logged' = ""
                     /\ data' = run.table
    /\ UNCHANGED <<phase, indicator, country, file_name, url, data_downloaded,
                   ctor_args, disk, server, requests>>

\* transform_data()
Transform ==
    /\ phase = "ready"
    /\ lastOp' = "transform_data"
    /\ raised' = ""
    /\ LET pre == TransformPrecheck(data)
           run == TransformRun(data.items[2])
       IN  IF pre # ""
           THEN /\ logged' = pre
                /\ UNCHANGED <<data, data_transformed>>
           ELSE IF run.error # ""
                THEN /\ logged' = run.error
                     /\ UNCHANGED <<data, data_transformed>>
                ELSE /\ logged' = ""
                     /\ data' = run.table
                     /\ data_transformed' = TRUE
    /\ UNCHANGED <<phase, indicator, country, file_name, url, data_downloaded,
                   ctor_args, disk, server, requests>>

-----------------------------------------------------------------------------
(* save *)

\* DataFrame.to_json(orient='records', lines=True): one JSON object per row, NaN as null
to_json_lines(table) ==
    [format |-> "json_lines",
     lines  |-> [i \in 1..Len(table.rows) |->
                   [h \in table.columns |->
                      IF table.rows[i][h].kind = "NaN" THEN [kind |-> "null"]
                      ELSE table.rows[i][h]]]]

\* json.dump(self.data, file, indent=4, ensure_ascii=False)
json_dump(l) == [format |-> "json_pretty", doc |-> l]

\* (mutant) save() without its check of data_downloaded
SaveRunNoCheck(d, downloaded, transformed, old) ==
    IF transformed
    THEN IF d.tag = "DataFrame"
         THEN [error |-> "", disk |-> [exists |-> TRUE, content |-> to_json_lines(d)]]
         ELSE [error |-> "AttributeError", disk |-> old]
    ELSE IF d.tag = "list"
         THEN [error |-> "", disk |-> [exists |-> TRUE, content |-> json_dump(d.items)]]
         ELSE [error |-> "TypeError",
               disk |-> [exists |-> TRUE, content |-> [format |-> "empty"]]]

\* save(): what it logs as an error and what it leaves in the file
SaveRun(d, downloaded, transformed, old) ==
    IF ~downloaded
    THEN [error |-> "ValueError: not downloaded", disk |-> old]
    ELSE IF transformed
         THEN IF d.tag = "DataFrame"
              THEN [error |-> "", disk |-> [exists |-> TRUE, content |-> to_json_lines(d)]]
              ELSE [error |-> "AttributeError", disk |-> old]
         ELSE IF d.tag = "list"
              THEN [error |-> "", disk |-> [exists |-> TRUE, content |-> json_dump(d.items)]]
              ELSE [error |-> "TypeError",
                    disk |-> [exists |-> TRUE, content |-> [format |-> "empty"]]]

\* save(): the file_name argument is only logged
Save ==
    /\ phase = "ready"
    /\ lastOp' = "save"
    /\ raised' = ""
    /\ LET run == SaveRun(data, data_downloaded, data_transformed, disk)
       IN  /\ logged' = run.error
           /\ disk' = run.disk
    /\ UNCHANGED <<phase, indicator, country, file_name, url, data, data_downloaded,
                   data_transformed, ctor_args, server, requests>>

-----------------------------------------------------------------------------
(* Specification *)

\* the record counts the endpoint may report
Totals ==
    { 0, 1, per_page_size, per_page_size + 1, MaxTotal }

\* the record count of the endpoints that serve the other shapes of record
SmallTotal == 3

Servers ==
    [total : Totals, shape : {"indicator"}]
    \cup [total : {SmallTotal}, shape : Shapes \ {"indicator"}]

\* request numbers that may fail: 0 (none), the probe (1), a page (2, 3, ...)
FailPoints == 0..(1 + n_pages_of(MaxTotal))

Init ==
    /\ phase = "new"
    /\ indicator = <<>>
    /\ country = <<>>
    /\ file_name = <<>>
    /\ url = <<>>
    /\ data = NoneData
    /\ data_downloaded = FALSE
    /\ data_transformed = FALSE
    /\ ctor_args = [file_name |-> NoFileName, over_write |-> FALSE]
    /\ disk = [exists |-> FALSE, content |-> [format |-> "old"]]
    /\ server \in Servers
    /\ lastOp = "none"
    /\ logged = ""
    /\ raised = ""
    /\ requests = <<>>

DoConstruct ==
    \E ind \in Indicators, ctry \in Countries, arg \in FileNameArgs,
       over_write \in BOOLEAN, exists \in BOOLEAN :
        Construct(ind, ctry, arg, over_write, exists)

DoGet == \E fail_at \in FailPoints, err \in RequestErrors : Get(fail_at, err)

\* the constructor called with its default file name
DoConstructDefault ==
    \E over_write \in BOOLEAN, exists \in BOOLEAN :
        Construct(<<"x">>, <<"u", "s">>, NoFileName, over_write, exists)

Next == DoConstructDefault \/ DoGet \/ Transform \/ Save

Spec == Init /\ [][Next]_vars

\* every way of calling the constructor, against the endpoints with few records
InitCtor == Init /\ server.total <= SmallTotal

NextCtor == DoConstruct \/ DoGet \/ Transform \/ Save

SpecCtor == InitCtor /\ [][NextCtor]_vars

-----------------------------------------------------------------------------
(* C1: the dataset get() accumulates *)

\* the record sequences of pages p..n of the endpoint, one after the other
RECURSIVE PagesConcat(_, _)
PagesConcat(p, n) ==
    IF p > n THEN <<>>
    ELSE get_data(server, p, per_page_size)[2] \o PagesConcat(p + 1, n)

\* the number of pages of per_page_size records that hold `total` records
PageCount(total) ==
    CHOOSE n \in 0..total :
        /\ n * per_page_size >= total
        /\ n = 0 \/ (n - 1) * per_page_size < total

\* the dataset the claim describes: the first page's metadata, then every page's records
HoldsPagedDataset ==
    /\ data.tag = "list"
    /\ Len(data.items) = 2
    /\ data.items[1] = get_data(server, 1, per_page_size)[1]
    /\ data.items[2] = PagesConcat(1, PageCount(server.total))
    /\ Len(data.items[2]) = server.total
    /\ \A i \in 1..server.total : data.items[2][i] = Record(server.shape, i)

\* C1 as stated: after every get() in which no request fails, the held dataset is
\* the metadata of the first 1000-per-page response followed by the records of all
\* pages in page order, and the downloaded flag is true.
C1_Original ==
    (lastOp = "get" /\ logged = "") => (HoldsPagedDataset /\ data_downloaded)

\* C1 amended: the same whenever the probe reports at least one record; when it
\* reports none, no page is fetched and the held dataset is the empty list. The
\* downloaded flag is true in both cases.
C1_Amended ==
    (lastOp = "get" /\ logged = "") =>
        /\ data_downloaded
        /\ IF server.total > 0
           THEN HoldsPagedDataset
           ELSE data = ListData(<<>>)

\* pages of 1000, 1000 and 500 records were fetched and accumulated
C1_Witness ==
    /\ lastOp = "get" /\ logged = ""
    /\ server.total = 2 * per_page_size + 500
    /\ Len(requests) = 4
    /\ Len(data.items[2]) = 2 * per_page_size + 500

-----------------------------------------------------------------------------
(* C2: the page count and the requests get() issues *)

\* the probe, then pages 1..n of per_page_size records
ExpectedRequests(n) ==
    <<Request(1, 1)>> \o [p \in 1..n |-> Request(p, per_page_size)]

IsPrefix(s, t) == Len(s) <= Len(t) /\ SubSeq(t, 1, Len(s)) = s

-----------------------------------------------------------------------------
(* C3: save() before any get() has completed *)

\* C3: save() on an instance whose downloaded flag is false fails with the
\* not-downloaded error (raised inside save and logged by the decorator) and
\* writes no file.
C3_SaveNotDownloaded ==
    [][(lastOp' = "save" /\ ~data_downloaded) =>
          /\ logged' = "ValueError: not downloaded"
          /\ disk' = disk]_vars

\* save() was called before any get() completed
C3_Witness ==
    /\ lastOp = "save"
    /\ ~data_downloaded
    /\ logged = "ValueError: not downloaded"
    /\ disk.content.format = "old"

-----------------------------------------------------------------------------
(* C4: transform_data() before any get() has completed *)

\* C4: transform_data() on an instance whose downloaded flag is false fails, and
\* leaves the held data, the downloaded flag and the transformed flag unchanged
\* (transformed stays false).
C4_TransformNotDownloaded ==
    [][(lastOp' = "transform_data" /\ ~data_downloaded) =>
          /\ logged' # ""
          /\ data' = data
          /\ data_downloaded' = data_downloaded
          /\ data_transformed' = data_transformed
          /\ ~data_transformed']_vars

\* transform_data() was called before any get() completed
C4_Witness ==
    /\ lastOp = "transform_data"
    /\ ~data_downloaded
    /\ logged = "TypeError"
    /\ data = NoneData

-----------------------------------------------------------------------------
(* C5: the constructor and the output file *)

\* the default name, '{indicator}_{country}.json'
DefaultName(ind, ctry) == ind \o <<"_">> \o ctry \o <<".json">>

NameGiven(arg) == arg.given /\ arg.name # <<>>

\* the resolved name as the claim words it: '.json' is appended when the given
\* name does not contain 'json'
ResolvedAsStated(arg, ind, ctry) ==
    IF ~NameGiven(arg) THEN DefaultName(ind, ctry)
    ELSE IF Contains(StrJson, arg.name) THEN arg.name
    ELSE arg.name \o <<".json">>

EqualIgnoringCase(a, b) ==
    /\ Len(a) = Len(b)
    /\ \A i \in 1..Len(a) : LowerChar(a[i]) = LowerChar(b[i])

ContainsIgnoringCase(sub, s) ==
    \E i \in 1..Len(s) :
        /\ i + Len(sub) - 1 <= Len(s)
        /\ EqualIgnoringCase(SubSeq(s, i, i + Len(sub) - 1), sub)

\* the resolved name with 'json' looked for ignoring case
ResolvedIgnoringCase(arg, ind, ctry) ==
    IF ~NameGiven(arg) THEN DefaultName(ind, ctry)
    ELSE IF ContainsIgnoringCase(StrJson, arg.name) THEN arg.name
    ELSE arg.name \o <<".json">>

\* the outcome of the constructor, given the name it resolved
ConstructorOutcome ==
    IF disk.exists /\ ~ctor_args.over_write
    THEN phase = "failed" /\ raised = "FileExistsError"
    ELSE /\ phase = "ready" /\ raised = ""
         /\ data = NoneData
         /\ ~data_downloaded
         /\ ~data_transformed

\* C5 as stated: the output file name is the given name, with '.json' appended
\* when it does not contain 'json', or '{indicator}_{country}.json'; construction
\* fails with FileExistsError when that file exists and over_write is false, and
\* otherwise succeeds with no data and both flags false.
C5_Original ==
    (lastOp = "__init__") =>
        /\ file_name = ResolvedAsStated(ctor_args.file_name, indicator, country)
        /\ ConstructorOutcome

\* C5 amended: '.json' is appended when the given name does not contain 'json'
\* ignoring case ('D.JSON' is kept as it is); a name of None or '' counts as not
\* given. The rest is as stated.
C5_Amended ==
    (lastOp = "__init__") =>
        /\ file_name = ResolvedIgnoringCase(ctor_args.file_name, indicator, country)
        /\ ConstructorOutcome

\* the constructor refused an existing file whose given name holds 'JSON'
C5_Witness ==
    /\ lastOp = "__init__"
    /\ phase = "failed"
    /\ raised = "FileExistsError"
    /\ disk.exists
    /\ ~ctor_args.over_write
    /\ ctor_args.file_name.name = <<"D", ".", "J", "S", "O", "N">>

-----------------------------------------------------------------------------
(* C6: the base URL *)

\* the base URL the claim gives for an indicator and a country
UrlAsStated(ind, ctry) ==
    IF EqualIgnoringCase(ind, StrAll) THEN base_api_url \o <<"/indicator">>
    ELSE IF EqualIgnoringCase(ind, StrSource) THEN base_api_url \o <<"/source">>
    ELSE base_api_url \o <<"/country/">> \o ctry \o <<"/indicator/">> \o ind

\* C6: the base URL is '{base}/indicator' for the indicator 'all' ignoring case,
\* '{base}/source' for 'source' ignoring case, and
\* '{base}/country/{country}/indicator/{indicator}' otherwise, and no call
\* changes it after construction.
C6_Url ==
    /\ [](phase = "ready" => url = UrlAsStated(indicator, country))
    /\ [][phase = "ready" =>
            (url' = url /\ indicator' = indicator /\ country' = country)]_vars

\* an object made for the indicator 'AlL' still has the listing URL after a save()
C6_Witness ==
    /\ phase = "ready"
    /\ indicator = <<"A", "l", "L">>
    /\ url = base_api_url \o <<"/indicator">>
    /\ lastOp = "save"

-----------------------------------------------------------------------------
(* C7: the table transform_data() builds *)

\* the held data is a raw dataset with at least one record
HoldsRawRecords ==
    /\ data.tag = "list"
    /\ Len(data.items) = 2
    /\ Len(data.items[2]) > 0

\* the first record has a "value" sub-mapping
FirstRecordHasValueMapping ==
    /\ "value" \in DOMAIN data.items[2][1]
    /\ data.items[2][1]["value"].kind = "dict"

\* C7 as stated: transform_data() on a downloaded dataset whose first record's
\* "value" sub-mapping has the keys {A,B} produces a table with exactly the
\* columns {A,B} and one row per record, replaces the held data by it and sets
\* the transformed flag.
C7_Original ==
    [][(lastOp' = "transform_data" /\ data_downloaded /\ HoldsRawRecords
          /\ FirstRecordHasValueMapping) =>
          /\ data'.tag = "DataFrame"
          /\ data'.columns = DOMAIN data.items[2][1]["value"].d
          /\ Len(data'.rows) = Len(data.items[2])
          /\ data_transformed']_vars

\* the field h of a record has a 'value' to give: it is a sub-mapping with that key
GivesValue(rec, h) ==
    /\ h \in DOMAIN rec
    /\ rec[h].kind = "dict"
    /\ "value" \in DOMAIN rec[h].d

\* the cell of column h in the row of a record: the 'value' entry of the field's
\* sub-mapping, the field itself when it is a scalar, NaN when there is neither
CellAsAmended(rec, h) ==
    IF h \notin DOMAIN rec THEN NaN
    ELSE IF rec[h].kind = "scalar" THEN rec[h]
    ELSE IF GivesValue(rec, h) THEN Scalar(rec[h].d["value"])
    ELSE NaN

\* C7 amended: on a downloaded raw dataset whose first record has the top-level
\* keys {A,B}, and in which every record has among these fields a sub-mapping
\* with a 'value' key, transform_data() produces a table with exactly the columns
\* {A,B} and one row per record, in record order, each cell being the 'value'
\* entry of that field's sub-mapping (or the field's scalar, or NaN when the record
\* has neither); it replaces the held data by that table and sets the
\* transformed flag.
C7_Amended ==
    [][(lastOp' = "transform_data" /\ data_downloaded /\ HoldsRawRecords
          /\ \A i \in 1..Len(data.items[2]) :
                \E h \in DOMAIN data.items[2][1] : GivesValue(data.items[2][i], h)) =>
          /\ logged' = ""
          /\ data'.tag = "DataFrame"
          /\ data'.columns = DOMAIN data.items[2][1]
          /\ Len(data'.rows) = Len(data.items[2])
          /\ \A i \in 1..Len(data.items[2]) :
                /\ DOMAIN data'.rows[i] = DOMAIN data.items[2][1]
                /\ \A h \in DOMAIN data.items[2][1] :
                      data'.rows[i][h] = CellAsAmended(data.items[2][i], h)
          /\ data_transformed'
          /\ data_downloaded']_vars

\* a table of one row per record was built from the largest dataset
C7_Witness ==
    /\ lastOp = "transform_data"
    /\ logged = ""
    /\ data.tag = "DataFrame"
    /\ data.columns = {"indicator", "date", "value"}
    /\ Len(data.rows) = MaxTotal
    /\ data.rows[MaxTotal]["date"] = Scalar(MaxTotal)
    /\ data_transformed

-----------------------------------------------------------------------------
(* C8: the transformed flag and the form of the held data *)

\* C8: in every state reachable by get(), transform_data() and save() calls, the
\* transformed flag is true exactly when the held data is the transformed table.
C8_FlagRecordsForm ==
    (phase = "ready") => (data_transformed <=> data.tag = "DataFrame")

-----------------------------------------------------------------------------
(* C9: a get() in which a request fails *)

\* C9 as stated: when a request of a get() call fails, nothing is raised to the
\* caller, the error is logged, and the downloaded flag is false after the call.
C9_Original ==
    (lastOp = "get" /\ logged # "") => (raised = "" /\ ~data_downloaded)

\* C9 amended: when a request of a get() call fails, nothing is raised to the
\* caller, the error is logged, and the call leaves the held data and both flags as
\* they were before it: the downloaded flag is false after the call unless an
\* earlier get() on the instance completed.
C9_Amended ==
    [][(lastOp' = "get" /\ logged' # "") =>
          /\ raised' = ""
          /\ logged' \in RequestErrors
          /\ data' = data
          /\ data_downloaded' = data_downloaded
          /\ data_transformed' = data_transformed
          /\ (data = NoneData) => ~data_downloaded']_vars

\* a page request failed in a get() that followed a completed get()
C9_Witness ==
    /\ lastOp = "get"
    /\ logged = "JSONDecodeError"
    /\ Len(requests) = 3
    /\ data_downloaded
    /\ data.tag = "list"

-----------------------------------------------------------------------------
(* C10: what save() writes *)

\* C10: whenever the downloaded flag is true, save() writes the output file, the
\* table's rows as newline-delimited JSON if the transformed flag is true and the
\* raw dataset as one pretty-printed JSON document otherwise, and changes neither
\* the held data nor the flags.
C10_SaveWrites ==
    [][(lastOp' = "save" /\ data_downloaded) =>
          /\ logged' = ""
          /\ disk'.exists
          /\ disk'.content.format = (IF data_transformed THEN "json_lines" ELSE "json_pretty")
          /\ data' = data
          /\ data_downloaded' = data_downloaded
          /\ data_transformed' = data_transformed]_vars

====
